---- MODULE Spec2Model ----
(***************************************************************************)
(* Vendor management system: the Vendor, PurchaseOrder and                 *)
(* HistoricalPerformance tables (vendors/models.py) and the request        *)
(* handlers and metric functions of vendors/views.py.                      *)
(*                                                                         *)
(* A table is a function from the primary keys of its rows to the rows.    *)
(* A request body is a function from the keys the JSON object carries to   *)
(* their values, so that dict.get(key, default) is Get(body, key, default).*)
(* A float is the exact fraction <<numerator, denominator>> in lowest      *)
(* terms (floating-point rounding is not modelled).  A nullable column     *)
(* holds None (<<>>) or <<value>>.  Each handler runs to completion before *)
(* the next request starts (sequential execution), and datetime.now()     *)
(* is the number of the request being served.                              *)
(***************************************************************************)
EXTENDS Integers, Sequences, FiniteSets, TLC

VARIABLES
    Vendor,                 \* the table of Vendor rows, by vendor_code
    PurchaseOrder,          \* the table of PurchaseOrder rows, by po_number
    HistoricalPerformance,  \* the table of snapshots, by their automatic id
    hist_seq,               \* the id the next snapshot gets
    now,                    \* datetime.now()
    response,               \* the response to the last request
    po_operations,          \* history variable: for each vendor code, the
                            \* snapshot-taking requests its orders received
                            \* since a vendor of that code was last deleted
    requests                \* the requests being served side by side: for
                            \* each, its handler, its position in it and
                            \* the instances it holds in memory

tables == <<Vendor, PurchaseOrder, HistoricalPerformance, hist_seq>>

vars == <<Vendor, PurchaseOrder, HistoricalPerformance, hist_seq, now,
          response, po_operations, requests>>

----------------------------------------------------------------------------
(* Bounds *)

\* the clock advances by one with every request; the last request is served
\* at MaxTime
MaxTime == 3

----------------------------------------------------------------------------
(* Values requests carry *)

\* the vendor codes and order numbers of vendors/tests.py
VendorCodes == {"TEST001", "TEST002"}
PoNumbers == {"PO001", "PO123"}
Names == {"n1"}
Contacts == {"c1"}
Addresses == {"a1"}
OrderDates == {0}
DeliveryDates == {1}
IssueDates == {0}
ItemValues == {"i1"}
Quantities == {1}
Statuses == {"pending", "cancelled", "completed"}

None == <<>>
Ratings == {None, <<2>>, <<4>>}
AckDates == {None, <<1>>}

\* the metric values of the vendors the tests create (0.95, 4.5, 2.5, 0.98)
OnTimeInputs == {<<19, 20>>}
QualityInputs == {<<9, 2>>}
ResponseInputs == {<<5, 2>>}
FulfillmentInputs == {<<49, 50>>}

----------------------------------------------------------------------------
(* Helpers: dictionaries, floats, the ORM *)

\* dict.get(key, default)
Get(body, key, default) == IF key \in DOMAIN body THEN body[key] ELSE default

\* the body restricted to some of its keys
Restrict(full, K) == [k \in K |-> full[k]]

RECURSIVE GCD(_, _)
GCD(a, b) == IF b = 0 THEN a ELSE GCD(b, a % b)

Abs(x) == IF x < 0 THEN -x ELSE x

\* n / d for d > 0, as a float
Div(n, d) == LET g == GCD(Abs(n), d) IN <<n \div g, d \div g>>

\* the int 0 stored in a FloatField
Zero == <<0, 1>>

RECURSIVE Sum(_, _)
Sum(f, S) == IF S = {} THEN 0
             ELSE LET x == CHOOSE y \in S : TRUE IN f[x] + Sum(f, S \ {x})

\* Model.save() of an instance loaded from the table: UPDATE the row whose
\* primary key is the instance's, INSERT it when no such row exists
Save(table, pk, row) ==
    [k \in (DOMAIN table) \cup {pk} |-> IF k = pk THEN row ELSE table[k]]

\* Model.delete() / on_delete=CASCADE: the rows that remain
Remove(table, gone) == [k \in (DOMAIN table) \ gone |-> table[k]]

----------------------------------------------------------------------------
(* Request bodies *)

VendorFields == {"name", "contact_details", "address", "vendor_code",
                 "on_time_delivery_rate", "quality_rating_avg",
                 "average_response_time", "fulfillment_rate"}

PoRequired == {"po_number", "vendor", "order_date", "delivery_date", "items",
               "quantity", "status", "issue_date"}

PoOptional == {"quality_rating", "acknowledgement_date"}

\* the keys purchase_order_data reads from the body of a PUT
PoPutFields == (PoRequired \ {"vendor"}) \cup PoOptional

FullVendorBodies ==
    [name : Names, contact_details : Contacts, address : Addresses,
     vendor_code : VendorCodes, on_time_delivery_rate : OnTimeInputs,
     quality_rating_avg : QualityInputs,
     average_response_time : ResponseInputs,
     fulfillment_rate : FulfillmentInputs]

FullPoBodies ==
    [po_number : PoNumbers, vendor : VendorCodes, order_date : OrderDates,
     delivery_date : DeliveryDates, items : ItemValues,
     quantity : Quantities, status : Statuses, quality_rating : Ratings,
     issue_date : IssueDates, acknowledgement_date : AckDates]

\* the sets of one element of S
Singletons(S) == {{a} : a \in S}

\* one body for every set of keys the missing-field check can meet short:
\* one required key missing, or all of them (an empty body)
IncompleteVendorBodies ==
    {Restrict(full, VendorFields \ M) :
        full \in {b \in FullVendorBodies : b.vendor_code = "TEST001"},
        M \in Singletons(VendorFields) \cup {VendorFields}}

VendorPostBodies == FullVendorBodies \cup IncompleteVendorBodies

\* a PUT carries no key, one key or all the keys
VendorPutBodies ==
    {Restrict(full, K) :
        full \in FullVendorBodies,
        K \in Singletons(VendorFields) \cup {{}, VendorFields}}

IncompletePoBodies ==
    {Restrict(full, PoRequired \ M) :
        full \in {b \in FullPoBodies :
                     /\ b.po_number = "PO001" /\ b.vendor = "TEST001"
                     /\ b.status = "pending" /\ b.quality_rating = None
                     /\ b.acknowledgement_date = None},
        M \in Singletons(PoRequired) \cup {PoRequired}}

\* a complete body carries both optional keys or neither
PoPostBodies ==
    {Restrict(full, PoRequired \cup O) :
        full \in FullPoBodies, O \in {{}, PoOptional}}
    \cup IncompletePoBodies

\* a PUT carries no key, one key, the new status with the rating of the
\* completed order, or a new po_number with a new status
PoPutBodies ==
    {Restrict(full, K) :
        full \in FullPoBodies,
        K \in Singletons(PoPutFields)
               \cup {{}, {"status", "quality_rating"}, {"po_number", "status"}}}

----------------------------------------------------------------------------
(* Metric functions.  Each takes the primary key of the vendor, the vendor *)
(* instance the handler holds and the PurchaseOrder table it queries, and  *)
(* yields the instance as it is saved.                                     *)

\* faulty variant: the stored value is kept when no order is acknowledged
calculate_average_response_time_kept(pk, vendor, pos) ==
    LET purchase_orders ==
            {p \in DOMAIN pos : /\ pos[p].vendor = pk
                                /\ pos[p].acknowledgement_date # None}
        total_response_time ==
            Sum([p \in purchase_orders |->
                    pos[p].acknowledgement_date[1] - pos[p].issue_date],
                purchase_orders)
    IN  IF Cardinality(purchase_orders) > 0
        THEN [vendor EXCEPT !.average_response_time =
                 Div(total_response_time, Cardinality(purchase_orders))]
        ELSE vendor

\* faulty variant: the total is divided by the number of all the orders of
\* the vendor, acknowledged or not
calculate_average_response_time_of_all(pk, vendor, pos) ==
    LET purchase_orders ==
            {p \in DOMAIN pos : /\ pos[p].vendor = pk
                                /\ pos[p].acknowledgement_date # None}
        total_response_time ==
            Sum([p \in purchase_orders |->
                    pos[p].acknowledgement_date[1] - pos[p].issue_date],
                purchase_orders)
        count == Cardinality({p \in DOMAIN pos : pos[p].vendor = pk})
    IN  [vendor EXCEPT !.average_response_time =
            IF count > 0 THEN Div(total_response_time, count) ELSE Zero]

calculate_average_response_time(pk, vendor, pos) ==
    LET purchase_orders ==
            {p \in DOMAIN pos : /\ pos[p].vendor = pk
                                /\ pos[p].acknowledgement_date # None}
        total_response_time ==
            Sum([p \in purchase_orders |->
                    pos[p].acknowledgement_date[1] - pos[p].issue_date],
                purchase_orders)
        average_response_time ==
            IF Cardinality(purchase_orders) > 0
            THEN Div(total_response_time, Cardinality(purchase_orders))
            ELSE Zero
    IN  [vendor EXCEPT !.average_response_time = average_response_time]

\* faulty variant: the orders of every status are averaged
quality_rating_calculation_all(pk, vendor, pos) ==
    LET rated == {p \in DOMAIN pos : /\ pos[p].vendor = pk
                                     /\ pos[p].quality_rating # None}
    IN  [vendor EXCEPT !.quality_rating_avg =
            IF rated = {} THEN Zero
            ELSE Div(Sum([p \in rated |-> pos[p].quality_rating[1]], rated),
                     Cardinality(rated))]

quality_rating_calculation(pk, vendor, pos) ==
    LET completed_purchase_orders ==
            {p \in DOMAIN pos : /\ pos[p].vendor = pk
                                /\ pos[p].status = "completed"}
        \* Avg() skips the rows whose quality_rating is NULL
        rated == {p \in completed_purchase_orders :
                     pos[p].quality_rating # None}
        average_quality_rating ==
            IF rated = {} THEN None
            ELSE <<Div(Sum([p \in rated |-> pos[p].quality_rating[1]], rated),
                       Cardinality(rated))>>
    IN  [vendor EXCEPT !.quality_rating_avg =
            IF average_quality_rating # None THEN average_quality_rating[1]
            ELSE Zero]

\* faulty variant: the division is an integer division
fulfillment_rate_calculation_floor(pk, vendor, pos) ==
    LET completed_po_count ==
            Cardinality({p \in DOMAIN pos : /\ pos[p].vendor = pk
                                            /\ pos[p].status = "completed"})
        total_po_count ==
            Cardinality({p \in DOMAIN pos : pos[p].vendor = pk})
    IN  [vendor EXCEPT !.fulfillment_rate =
            IF total_po_count # 0
            THEN <<completed_po_count \div total_po_count, 1>>
            ELSE Zero]

fulfillment_rate_calculation(pk, vendor, pos) ==
    LET completed_po_count ==
            Cardinality({p \in DOMAIN pos : /\ pos[p].vendor = pk
                                            /\ pos[p].status = "completed"})
        total_po_count ==
            Cardinality({p \in DOMAIN pos : pos[p].vendor = pk})
        fulfillment_rate ==
            IF total_po_count # 0 THEN Div(completed_po_count, total_po_count)
            ELSE Zero
    IN  [vendor EXCEPT !.fulfillment_rate = fulfillment_rate]

\* faulty variant: no snapshot when the vendor has one with the same four metrics
create_historical_record_if_new(hist, id, pk, vendor, t) ==
    IF \E h \in DOMAIN hist :
          /\ hist[h].vendor = pk
          /\ hist[h].on_time_delivery_rate = vendor.on_time_delivery_rate
          /\ hist[h].quality_rating_avg = vendor.quality_rating_avg
          /\ hist[h].average_response_time = vendor.average_response_time
          /\ hist[h].fulfillment_rate = vendor.fulfillment_rate
    THEN hist
    ELSE Save(hist, id,
              [vendor |-> pk, date |-> t,
               on_time_delivery_rate |-> vendor.on_time_delivery_rate,
               quality_rating_avg |-> vendor.quality_rating_avg,
               average_response_time |-> vendor.average_response_time,
               fulfillment_rate |-> vendor.fulfillment_rate])

\* faulty variant: the vendor keeps one snapshot, replaced by each call
create_historical_record_latest(hist, id, pk, vendor, t) ==
    Save(Remove(hist, {h \in DOMAIN hist : hist[h].vendor = pk}), id,
         [vendor |-> pk, date |-> t,
          on_time_delivery_rate |-> vendor.on_time_delivery_rate,
          quality_rating_avg |-> vendor.quality_rating_avg,
          average_response_time |-> vendor.average_response_time,
          fulfillment_rate |-> vendor.fulfillment_rate])

\* the HistoricalPerformance table after the insert, t being datetime.now()
create_historical_record(hist, id, pk, vendor, t) ==
    Save(hist, id,
         [vendor |-> pk, date |-> t,
          on_time_delivery_rate |-> vendor.on_time_delivery_rate,
          quality_rating_avg |-> vendor.quality_rating_avg,
          average_response_time |-> vendor.average_response_time,
          fulfillment_rate |-> vendor.fulfillment_rate])

----------------------------------------------------------------------------
(* Responses *)

\* faulty variant: the error names the first missing field only
MissingFields_first(required_fields, body) ==
    LET missing_fields ==
            SelectSeq(required_fields, LAMBDA field : field \notin DOMAIN body)
    IN  IF missing_fields = <<>> THEN <<>> ELSE <<Head(missing_fields)>>

\* the fields of required_fields, in the order of the list, that the body lacks
MissingFields(required_fields, body) ==
    SelectSeq(required_fields, LAMBDA field : field \notin DOMAIN body)

\* JsonResponse with a 'message' or an 'error': the status code, the text
\* and, for a missing-fields error, the fields the text names
Response(status, message, missing) ==
    [status |-> status, message |-> message, missing |-> missing,
     data |-> ""]

\* JsonResponse with data: data names the payload (the list of all vendors,
\* the eight fields of a vendor, its five performance fields, a list of
\* purchase orders, the ten fields of a purchase order); the values are the
\* stored ones
Data(data) ==
    [status |-> 200, message |-> "", missing |-> <<>>, data |-> data]

VendorRequiredList ==
    <<"name", "contact_details", "address", "vendor_code",
      "on_time_delivery_rate", "quality_rating_avg", "average_response_time",
      "fulfillment_rate">>

PoRequiredList ==
    <<"po_number", "vendor", "order_date", "delivery_date", "items",
      "quantity", "status", "issue_date">>

----------------------------------------------------------------------------
(* Initial states: the empty database, and the database that               *)
(* PurchaseOrderAPITests.setUp of vendors/tests.py creates through the ORM *)

EmptyTable == [k \in {} |-> {}]

TestVendor(name) ==
    [name |-> name, contact_details |-> "c1", address |-> "a1",
     on_time_delivery_rate |-> <<19, 20>>, quality_rating_avg |-> <<9, 2>>,
     average_response_time |-> <<5, 2>>, fulfillment_rate |-> <<49, 50>>]

\* PurchaseOrderAPITests.setUp
PurchaseOrderVendorFixture == [k \in {"TEST001"} |-> TestVendor("n1")]

PurchaseOrderFixture ==
    [k \in {"PO001"} |->
        [vendor |-> "TEST001", order_date |-> 0, delivery_date |-> 1,
         items |-> "i1", quantity |-> 1, status |-> "pending",
         quality_rating |-> <<2>>, issue_date |-> 0,
         acknowledgement_date |-> None]]

\* the two requests of an overlap
Requests == {1, 2}

\* a request before it starts
NoRequest ==
    [kind |-> "", po_id |-> "", pc |-> "done", po |-> <<>>, vendor |-> <<>>,
     saved |-> {}, lost |-> FALSE, overlapped |-> FALSE]

Init ==
    /\ requests = EmptyTable
    /\ \/ Vendor = EmptyTable /\ PurchaseOrder = EmptyTable
       \/ Vendor = PurchaseOrderVendorFixture
          /\ PurchaseOrder = PurchaseOrderFixture
    /\ HistoricalPerformance = EmptyTable
    /\ hist_seq = 1
    /\ now = 1
    /\ response = Response(200, "", <<>>)
    /\ po_operations = [v \in VendorCodes |-> 0]

----------------------------------------------------------------------------
(* /api/vendors/ *)

\* a request is served from its start to its response with no other request
\* in between: the clock advances
Tick == now <= MaxTime /\ now' = now + 1 /\ UNCHANGED requests

\* the row Vendor.objects.create() inserts
NewVendor(vendor_details) ==
    [name |-> vendor_details.name,
     contact_details |-> vendor_details.contact_details,
     address |-> vendor_details.address,
     on_time_delivery_rate |-> vendor_details.on_time_delivery_rate,
     quality_rating_avg |-> vendor_details.quality_rating_avg,
     average_response_time |-> vendor_details.average_response_time,
     fulfillment_rate |-> vendor_details.fulfillment_rate]

vendors_POST(vendor_details) ==
    LET missing_fields == MissingFields(VendorRequiredList, vendor_details)
    IN  /\ Tick
        /\ IF missing_fields # <<>>
           THEN /\ response' = Response(400, "missing fields", missing_fields)
                /\ UNCHANGED Vendor
           ELSE IF vendor_details.vendor_code \in DOMAIN Vendor
           THEN \* create() raises IntegrityError, caught at line 46
                /\ response' = Response(400, "IntegrityError", <<>>)
                /\ UNCHANGED Vendor
           ELSE /\ Vendor' = Save(Vendor, vendor_details.vendor_code,
                                  NewVendor(vendor_details))
                /\ response' = Response(201, "vendor created", <<>>)
        /\ UNCHANGED <<PurchaseOrder, HistoricalPerformance, hist_seq,
                       po_operations>>

vendors_GET ==
    /\ Tick
    /\ response' = Data("vendors")
    /\ UNCHANGED <<tables, po_operations>>

----------------------------------------------------------------------------
(* /api/vendors/<vendor_id>/ *)

vendor_data_GET(vendor_id) ==
    /\ Tick
    /\ IF vendor_id \notin DOMAIN Vendor
       THEN response' = Response(404, "invalid vendor id", <<>>)
       ELSE response' = Data("vendor")
    /\ UNCHANGED <<tables, po_operations>>

\* the instance vendor after the assignments of lines 101-108 (its primary
\* key vendor_code is UpdatedVendorCode)
UpdatedVendor(old, vendor_details) ==
    [name |-> Get(vendor_details, "name", old.name),
     contact_details |->
         Get(vendor_details, "contact_details", old.contact_details),
     address |-> Get(vendor_details, "address", old.address),
     on_time_delivery_rate |->
         Get(vendor_details, "on_time_delivery_rate",
             old.on_time_delivery_rate),
     quality_rating_avg |->
         Get(vendor_details, "quality_rating_avg", old.quality_rating_avg),
     average_response_time |->
         Get(vendor_details, "average_response_time",
             old.average_response_time),
     fulfillment_rate |->
         Get(vendor_details, "fulfillment_rate", old.fulfillment_rate)]

UpdatedVendorCode(vendor_id, vendor_details) ==
    Get(vendor_details, "vendor_code", vendor_id)

vendor_data_PUT(vendor_id, vendor_details) ==
    /\ Tick
    /\ IF vendor_id \notin DOMAIN Vendor
       THEN /\ response' = Response(404, "invalid vendor id", <<>>)
            /\ UNCHANGED Vendor
       ELSE /\ Vendor' = Save(Vendor,
                              UpdatedVendorCode(vendor_id, vendor_details),
                              UpdatedVendor(Vendor[vendor_id], vendor_details))
            /\ response' = Response(200, "vendor updated", <<>>)
    /\ UNCHANGED <<PurchaseOrder, HistoricalPerformance, hist_seq,
                   po_operations>>

\* the rows of a table whose vendor is vendor_id: on_delete=CASCADE deletes
\* them with the vendor
OfVendor(table, vendor_id) ==
    {k \in DOMAIN table : table[k].vendor = vendor_id}

vendor_data_DELETE(vendor_id) ==
    /\ Tick
    /\ IF vendor_id \notin DOMAIN Vendor
       THEN /\ response' = Response(404, "invalid vendor id", <<>>)
            /\ UNCHANGED <<Vendor, PurchaseOrder, HistoricalPerformance,
                           po_operations>>
       ELSE /\ Vendor' = Remove(Vendor, {vendor_id})
            /\ PurchaseOrder' =
                   Remove(PurchaseOrder, OfVendor(PurchaseOrder, vendor_id))
            /\ HistoricalPerformance' =
                   Remove(HistoricalPerformance,
                          OfVendor(HistoricalPerformance, vendor_id))
            /\ response' = Response(204, "vendor deleted", <<>>)
            /\ po_operations' = [po_operations EXCEPT ![vendor_id] = 0]
    /\ UNCHANGED hist_seq

vendor_performance(vendor_id) ==
    /\ Tick
    /\ IF vendor_id \notin DOMAIN Vendor
       THEN response' = Response(404, "invalid vendor id", <<>>)
       ELSE response' = Data("performance")
    /\ UNCHANGED <<tables, po_operations>>

----------------------------------------------------------------------------
(* /api/purchase_orders/ *)

\* vendor_id = "" : the query string carries no vendor_id
purchase_orders_GET(vendor_id) ==
    /\ Tick
    /\ IF vendor_id # "" /\ vendor_id \notin DOMAIN Vendor
       THEN \* Vendor.objects.get raises DoesNotExist at line 160, outside
            \* any try: the request ends as a server error
            response' = Response(500, "DoesNotExist", <<>>)
       ELSE response' = Data("purchase_orders")
    /\ UNCHANGED <<tables, po_operations>>

\* the row PurchaseOrder.objects.create() inserts
NewOrder(po_details) ==
    [vendor |-> po_details.vendor,
     order_date |-> po_details.order_date,
     delivery_date |-> po_details.delivery_date,
     items |-> po_details.items,
     quantity |-> po_details.quantity,
     status |-> po_details.status,
     quality_rating |-> Get(po_details, "quality_rating", None),
     issue_date |-> po_details.issue_date,
     acknowledgement_date |-> Get(po_details, "acknowledgement_date", None)]

\* lines 182-203: what POST does to the PurchaseOrder table, and its response
CreateOrder(po_details) ==
    LET missing_fields == MissingFields(PoRequiredList, po_details)
    IN  IF missing_fields # <<>>
        THEN /\ response' = Response(400, "Missing fields", missing_fields)
             /\ UNCHANGED PurchaseOrder
        ELSE IF po_details.vendor \notin DOMAIN Vendor
        THEN \* Vendor.objects.get raises DoesNotExist, caught at line 202
             /\ response' = Response(400, "DoesNotExist", <<>>)
             /\ UNCHANGED PurchaseOrder
        ELSE IF po_details.po_number \in DOMAIN PurchaseOrder
        THEN \* create() raises IntegrityError, caught at line 202
             /\ response' = Response(400, "IntegrityError", <<>>)
             /\ UNCHANGED PurchaseOrder
        ELSE /\ PurchaseOrder' = Save(PurchaseOrder, po_details.po_number,
                                      NewOrder(po_details))
             /\ response' = Response(201,
                                     "purchase order created successfully",
                                     <<>>)

\* faulty variant: a created order recomputes the fulfillment rate of its
\* vendor
purchase_orders_POST_recalculating(po_details) ==
    /\ Tick
    /\ CreateOrder(po_details)
    /\ Vendor' =
           IF PurchaseOrder' # PurchaseOrder
           THEN Save(Vendor, po_details.vendor,
                     fulfillment_rate_calculation(po_details.vendor,
                         Vendor[po_details.vendor], PurchaseOrder'))
           ELSE Vendor
    /\ UNCHANGED <<HistoricalPerformance, hist_seq, po_operations>>

purchase_orders_POST(po_details) ==
    /\ Tick
    /\ CreateOrder(po_details)
    /\ UNCHANGED <<Vendor, HistoricalPerformance, hist_seq, po_operations>>

----------------------------------------------------------------------------
(* /api/purchase_orders/<po_id>/ *)

purchase_order_data_GET(po_id) ==
    /\ Tick
    /\ IF po_id \notin DOMAIN PurchaseOrder
       THEN response' = Response(404, "invalid purchase order id", <<>>)
       ELSE response' = Data("purchase_order")
    /\ UNCHANGED <<tables, po_operations>>

\* the instance po after the assignments of lines 241-249 (its primary key
\* po_number is PutKey)
PutInstance(old, po_details) ==
    [vendor |-> old.vendor,
     delivery_date |-> Get(po_details, "delivery_date", old.delivery_date),
     order_date |-> Get(po_details, "order_date", old.order_date),
     items |-> Get(po_details, "items", old.items),
     quantity |-> Get(po_details, "quantity", old.quantity),
     status |-> Get(po_details, "status", old.status),
     quality_rating |-> Get(po_details, "quality_rating", None),
     issue_date |-> Get(po_details, "issue_date", old.issue_date),
     acknowledgement_date |-> Get(po_details, "acknowledgement_date", None)]

PutKey(po_id, po_details) == Get(po_details, "po_number", po_id)

\* faulty variant: every PUT that leaves the order completed recomputes
StatusTrigger_completed(prev_status, status) == status = "completed"

\* the condition of line 252
StatusTrigger(prev_status, status) ==
    prev_status # "completed" /\ status = "completed"

purchase_order_data_PUT(po_id, po_details) ==
    /\ Tick
    /\ IF po_id \notin DOMAIN PurchaseOrder
       THEN /\ response' = Response(404, "invalid purchase order id", <<>>)
            /\ UNCHANGED <<tables, po_operations>>
       ELSE LET prev_status == PurchaseOrder[po_id].status
                po == PutInstance(PurchaseOrder[po_id], po_details)
                \* po.save(): a new po_number is the key of another row
                pos == Save(PurchaseOrder, PutKey(po_id, po_details), po)
                recompute == StatusTrigger(prev_status, po.status)
                vendor ==
                    IF recompute
                    THEN fulfillment_rate_calculation(po.vendor,
                             quality_rating_calculation(po.vendor,
                                 Vendor[po.vendor], pos), pos)
                    ELSE Vendor[po.vendor]
            IN  /\ PurchaseOrder' = pos
                /\ Vendor' = IF recompute THEN Save(Vendor, po.vendor, vendor)
                             ELSE Vendor
                /\ HistoricalPerformance' =
                       create_historical_record(HistoricalPerformance, hist_seq,
                                                po.vendor, vendor, now)
                /\ hist_seq' = hist_seq + 1
                /\ response' = Response(200, "purchase order updated", <<>>)
                /\ po_operations' =
                       [po_operations EXCEPT ![po.vendor] = @ + 1]

\* faulty variant: the snapshot is taken before the three recalculations
purchase_order_data_DELETE_snapshot_first(po_id) ==
    /\ Tick
    /\ IF po_id \notin DOMAIN PurchaseOrder
       THEN /\ response' = Response(404, "invalid purchase order id", <<>>)
            /\ UNCHANGED <<tables, po_operations>>
       ELSE LET pk == PurchaseOrder[po_id].vendor
                pos == Remove(PurchaseOrder, {po_id})
                vendor ==
                    quality_rating_calculation(pk,
                        fulfillment_rate_calculation(pk,
                            calculate_average_response_time(pk, Vendor[pk], pos),
                            pos), pos)
            IN  /\ PurchaseOrder' = pos
                /\ Vendor' = Save(Vendor, pk, vendor)
                /\ HistoricalPerformance' =
                       create_historical_record(HistoricalPerformance, hist_seq,
                                                pk, Vendor[pk], now)
                /\ hist_seq' = hist_seq + 1
                /\ response' = Response(204, "purchase order deleted", <<>>)
                /\ po_operations' = [po_operations EXCEPT ![pk] = @ + 1]

purchase_order_data_DELETE(po_id) ==
    /\ Tick
    /\ IF po_id \notin DOMAIN PurchaseOrder
       THEN /\ response' = Response(404, "invalid purchase order id", <<>>)
            /\ UNCHANGED <<tables, po_operations>>
       ELSE LET pk == PurchaseOrder[po_id].vendor
                pos == Remove(PurchaseOrder, {po_id})
                vendor ==
                    quality_rating_calculation(pk,
                        fulfillment_rate_calculation(pk,
                            calculate_average_response_time(pk, Vendor[pk], pos),
                            pos), pos)
            IN  /\ PurchaseOrder' = pos
                /\ Vendor' = Save(Vendor, pk, vendor)
                /\ HistoricalPerformance' =
                       create_historical_record(HistoricalPerformance, hist_seq,
                                                pk, vendor, now)
                /\ hist_seq' = hist_seq + 1
                /\ response' = Response(204, "purchase order deleted", <<>>)
                /\ po_operations' = [po_operations EXCEPT ![pk] = @ + 1]

----------------------------------------------------------------------------
(* /api/purchase_orders/<po_id>/acknowledge *)

\* faulty variant: the acknowledgement date is set whether or not it was null
NotAcknowledged_always(purchase_order) == TRUE

\* the condition of line 281
NotAcknowledged(purchase_order) == purchase_order.acknowledgement_date = None

acknowledge_purchase_order(po_id) ==
    /\ Tick
    /\ IF po_id \notin DOMAIN PurchaseOrder
       THEN /\ response' = Response(404, "purchase order not found", <<>>)
            /\ UNCHANGED <<tables, po_operations>>
       ELSE IF NotAcknowledged(PurchaseOrder[po_id])
       THEN LET purchase_order ==
                    [PurchaseOrder[po_id] EXCEPT !.acknowledgement_date = <<now>>]
                pos == Save(PurchaseOrder, po_id, purchase_order)
                pk == purchase_order.vendor
                vendor == calculate_average_response_time(pk, Vendor[pk], pos)
            IN  /\ PurchaseOrder' = pos
                /\ Vendor' = Save(Vendor, pk, vendor)
                /\ HistoricalPerformance' =
                       create_historical_record(HistoricalPerformance, hist_seq,
                                                pk, vendor, now)
                /\ hist_seq' = hist_seq + 1
                /\ response' = Response(200, "purchase order acknowledged", <<>>)
                /\ po_operations' = [po_operations EXCEPT ![pk] = @ + 1]
       ELSE /\ response' = Response(200, "purchase order already acknowledged",
                                    <<>>)
            /\ UNCHANGED <<tables, po_operations>>

----------------------------------------------------------------------------
(* The requests of a session, one after the other *)

Next ==
    \/ \E vendor_details \in VendorPostBodies : vendors_POST(vendor_details)
    \/ vendors_GET
    \/ \E vendor_id \in VendorCodes : vendor_data_GET(vendor_id)
    \/ \E vendor_id \in VendorCodes, vendor_details \in VendorPutBodies :
           vendor_data_PUT(vendor_id, vendor_details)
    \/ \E vendor_id \in VendorCodes : vendor_data_DELETE(vendor_id)
    \/ \E vendor_id \in VendorCodes : vendor_performance(vendor_id)
    \/ \E vendor_id \in VendorCodes \cup {""} : purchase_orders_GET(vendor_id)
    \/ \E po_details \in PoPostBodies : purchase_orders_POST(po_details)
    \/ \E po_id \in PoNumbers : purchase_order_data_GET(po_id)
    \/ \E po_id \in PoNumbers, po_details \in PoPutBodies :
           purchase_order_data_PUT(po_id, po_details)
    \/ \E po_id \in PoNumbers : purchase_order_data_DELETE(po_id)
    \/ \E po_id \in PoNumbers : acknowledge_purchase_order(po_id)


Spec == Init /\ [][Next]_vars

----------------------------------------------------------------------------
(* Properties *)

\* the number of snapshots of vendor v
HistoryCount(hist, v) == Cardinality({h \in DOMAIN hist : hist[h].vendor = v})

\* a PUT, a DELETE or an acknowledge call addressed to purchase order p
OrderCall(p) ==
    \/ /\ response'.message = "purchase order updated"
       /\ \E po_details \in PoPutBodies :
              purchase_order_data_PUT(p, po_details)
    \/ purchase_order_data_DELETE(p)
    \/ acknowledge_purchase_order(p)

\* C1 as stated: every PUT, every acknowledge call and every DELETE addressed
\* to an existing purchase order adds exactly one snapshot of the order's
\* vendor (from which the count of snapshots would equal the count of calls).
C1_EveryCallAddsOneRecord ==
    [][\A p \in DOMAIN PurchaseOrder :
          \/ HistoryCount(HistoricalPerformance', PurchaseOrder[p].vendor)
                 = HistoryCount(HistoricalPerformance,
                                PurchaseOrder[p].vendor) + 1
          \/ ~OrderCall(p)]_vars

\* a PUT, a DELETE or an acknowledge call that finds acknowledgement_date
\* null, addressed to purchase order p
SnapshotCall(p) ==
    \/ /\ response'.message = "purchase order updated"
       /\ \E po_details \in PoPutBodies :
              purchase_order_data_PUT(p, po_details)
    \/ purchase_order_data_DELETE(p)
    \/ /\ PurchaseOrder[p].acknowledgement_date = None
       /\ acknowledge_purchase_order(p)

\* C1 amended: every PUT, every DELETE and every acknowledge call that finds
\* acknowledgement_date null adds exactly one snapshot of the order's vendor;
\* an acknowledge call on an acknowledged order adds none; so the count of a
\* vendor's snapshots equals the number of such calls its orders received
\* since a vendor of that code was last deleted.
C1_SnapshotPerEffectiveCall ==
    /\ [](\A v \in VendorCodes :
            HistoryCount(HistoricalPerformance, v) = po_operations[v])
    /\ [][\A p \in DOMAIN PurchaseOrder :
            /\ \/ HistoryCount(HistoricalPerformance', PurchaseOrder[p].vendor)
                     = HistoryCount(HistoricalPerformance,
                                    PurchaseOrder[p].vendor) + 1
               \/ ~SnapshotCall(p)
            /\ \/ HistoricalPerformance' = HistoricalPerformance
               \/ PurchaseOrder[p].acknowledgement_date = None
               \/ ~acknowledge_purchase_order(p)]_vars

\* two snapshots of one vendor from two calls, then an acknowledge call that
\* added none
C1_Witness ==
    /\ response.message = "purchase order already acknowledged"
    /\ \E v \in VendorCodes :
          po_operations[v] = 2 /\ HistoryCount(HistoricalPerformance, v) = 2

\* C2: acknowledging a purchase order whose acknowledgement_date is null sets
\* the date (to the time of the call) and answers 'purchase order
\* acknowledged'; acknowledging it again changes no purchase order, no vendor
\* and no snapshot and answers 'purchase order already acknowledged'.
C2_AcknowledgeTwice ==
    /\ [](response.message = "purchase order acknowledged" =>
            \E p \in DOMAIN PurchaseOrder :
                PurchaseOrder[p].acknowledgement_date = <<now - 1>>)
    /\ [][\A p \in DOMAIN PurchaseOrder :
            \/ ~acknowledge_purchase_order(p)
            \/ IF PurchaseOrder[p].acknowledgement_date = None
               THEN /\ p \in DOMAIN PurchaseOrder'
                    /\ PurchaseOrder'[p].acknowledgement_date # None
                    /\ response'.status = 200
                    /\ response'.message = "purchase order acknowledged"
               ELSE /\ UNCHANGED <<Vendor, PurchaseOrder,
                                   HistoricalPerformance>>
                    /\ response'.status = 200
                    /\ response'.message =
                           "purchase order already acknowledged"]_vars

\* the second of two acknowledge calls in a row has answered: the first set
\* the date and took its snapshot two requests ago
C2_Witness ==
    /\ response.message = "purchase order already acknowledged"
    /\ \E p \in DOMAIN PurchaseOrder :
          /\ PurchaseOrder[p].acknowledgement_date = <<now - 2>>
          /\ \E h \in DOMAIN HistoricalPerformance :
                /\ HistoricalPerformance[h].date = now - 2
                /\ HistoricalPerformance[h].vendor = PurchaseOrder[p].vendor

\* x is the mean of f over the set S, and 0 when S is empty
IsMeanOver(x, f, S) ==
    IF S = {} THEN x = <<0, 1>>
    ELSE x[2] > 0 /\ x[1] * Cardinality(S) = x[2] * Sum(f, S)

\* x is the mean of the non-null quality ratings of the completed orders of
\* vendor v in the table pos, and 0 when there is none
IsQualityRatingAvg(x, v, pos) ==
    LET rated == {q \in DOMAIN pos : /\ pos[q].vendor = v
                                     /\ pos[q].status = "completed"
                                     /\ pos[q].quality_rating # None}
    IN  IsMeanOver(x, [q \in rated |-> pos[q].quality_rating[1]], rated)

\* x is the mean response time (acknowledgement_date - issue_date) of the
\* acknowledged orders of vendor v, and 0 when there is none
IsAverageResponseTime(x, v, pos) ==
    LET acked == {q \in DOMAIN pos : /\ pos[q].vendor = v
                                     /\ pos[q].acknowledgement_date # None}
    IN  IsMeanOver(x, [q \in acked |-> pos[q].acknowledgement_date[1]
                                       - pos[q].issue_date], acked)

\* x is the share of completed orders among the orders of vendor v, and 0
\* when it has none
IsFulfillmentRate(x, v, pos) ==
    LET orders == {q \in DOMAIN pos : pos[q].vendor = v}
    IN  IsMeanOver(x, [q \in orders |->
                          IF pos[q].status = "completed" THEN 1 ELSE 0],
                   orders)

\* the status the PUT of po_details gives purchase order p
StatusAfter(p, po_details) ==
    Get(po_details, "status", PurchaseOrder[p].status)

\* C3: after a PUT that moves the status of a purchase order from a value
\* other than completed to completed, the quality_rating_avg stored for its
\* vendor is the mean of the non-null quality ratings of the vendor's
\* completed orders as the PUT leaves them, and 0 when there is none.
C3_CompletionRecomputesQuality ==
    [][response'.message = "purchase order updated" =>
          \A p \in DOMAIN PurchaseOrder : \A po_details \in PoPutBodies :
              \/ PurchaseOrder[p].status = "completed"
              \/ StatusAfter(p, po_details) # "completed"
              \/ /\ PurchaseOrder[p].vendor \in DOMAIN Vendor'
                 /\ IsQualityRatingAvg(
                        Vendor'[PurchaseOrder[p].vendor].quality_rating_avg,
                        PurchaseOrder[p].vendor, PurchaseOrder')
              \/ ~purchase_order_data_PUT(p, po_details)]_vars

\* a PUT has completed an order and left its vendor with 3, the mean of the
\* ratings 2 and 4 of two completed orders
C3_Witness ==
    /\ response.message = "purchase order updated"
    /\ \E v \in DOMAIN Vendor :
          /\ Vendor[v].quality_rating_avg = <<3, 1>>
          /\ \A p \in PoNumbers :
                /\ p \in DOMAIN PurchaseOrder
                /\ PurchaseOrder[p].vendor = v
                /\ PurchaseOrder[p].status = "completed"
                /\ PurchaseOrder[p].quality_rating # None

\* C4: after the DELETE of a purchase order, average_response_time,
\* fulfillment_rate and quality_rating_avg of its vendor are the values
\* computed over the orders the vendor has left; all three are 0 when it has
\* none left.
C4_DeleteRecomputesAll ==
    [][\A p \in DOMAIN PurchaseOrder :
          LET v == PurchaseOrder[p].vendor
          IN  \/ ~purchase_order_data_DELETE(p)
              \/ /\ p \notin DOMAIN PurchaseOrder'
                 /\ v \in DOMAIN Vendor'
                 /\ IsAverageResponseTime(Vendor'[v].average_response_time,
                                          v, PurchaseOrder')
                 /\ IsFulfillmentRate(Vendor'[v].fulfillment_rate,
                                      v, PurchaseOrder')
                 /\ IsQualityRatingAvg(Vendor'[v].quality_rating_avg,
                                       v, PurchaseOrder')
                 /\ (\A q \in DOMAIN PurchaseOrder' :
                         PurchaseOrder'[q].vendor # v)
                    => /\ Vendor'[v].average_response_time = <<0, 1>>
                       /\ Vendor'[v].fulfillment_rate = <<0, 1>>
                       /\ Vendor'[v].quality_rating_avg = <<0, 1>>]_vars

\* a DELETE has left a vendor with one order: completed, rated and
\* acknowledged, so that none of the three metrics is 0
C4_Witness ==
    /\ response.message = "purchase order deleted"
    /\ \E v \in DOMAIN Vendor :
          /\ Vendor[v].fulfillment_rate = <<1, 1>>
          /\ Vendor[v].quality_rating_avg = <<4, 1>>
          /\ Vendor[v].average_response_time = <<1, 1>>

\* the snapshot h is in the table after the step, with the fields it had
Kept(h) ==
    /\ h \in DOMAIN HistoricalPerformance'
    /\ HistoricalPerformance'[h] = HistoricalPerformance[h]

\* C5 as stated: HistoricalPerformance is append-only; no request ever changes
\* a field of an existing snapshot or removes it.
C5_AppendOnly ==
    [][\A h \in DOMAIN HistoricalPerformance : Kept(h)]_vars

\* C5 amended: no request ever changes a field of an existing snapshot, and
\* the only request that removes snapshots is the DELETE of a vendor, which
\* removes exactly the snapshots of that vendor (on_delete=CASCADE); every
\* other request leaves every existing snapshot in place.
C5_AppendOnlyButVendorDelete ==
    [][/\ \A h \in DOMAIN HistoricalPerformance :
             \/ Kept(h)
             \/ /\ h \notin DOMAIN HistoricalPerformance'
                /\ HistoricalPerformance[h].vendor \in DOMAIN Vendor
                /\ vendor_data_DELETE(HistoricalPerformance[h].vendor)
       /\ \A v \in DOMAIN Vendor :
             \/ ~vendor_data_DELETE(v)
             \/ DOMAIN HistoricalPerformance' =
                    DOMAIN HistoricalPerformance
                        \ OfVendor(HistoricalPerformance, v)]_vars

\* a vendor holds two snapshots, the older one still in place after the
\* request that added the newer one
C5_Witness ==
    \E g, h \in DOMAIN HistoricalPerformance :
        /\ g < h
        /\ HistoricalPerformance[g].vendor = HistoricalPerformance[h].vendor
        /\ HistoricalPerformance[h].date = now - 1

\* a request that names the vendor code v: the five requests that carry it in
\* the path or the query string, and the POST of a complete purchase order
\* whose vendor is v
NamesVendor(v) ==
    \/ vendor_data_GET(v)
    \/ \E vendor_details \in VendorPutBodies : vendor_data_PUT(v, vendor_details)
    \/ vendor_data_DELETE(v)
    \/ vendor_performance(v)
    \/ purchase_orders_GET(v)
    \/ \E po_details \in PoPostBodies :
          /\ PoRequired \subseteq DOMAIN po_details
          /\ po_details.vendor = v
          /\ purchase_orders_POST(po_details)

\* a request that names the purchase order number p in its path
NamesOrder(p) ==
    \/ purchase_order_data_GET(p)
    \/ \E po_details \in PoPutBodies : purchase_order_data_PUT(p, po_details)
    \/ purchase_order_data_DELETE(p)
    \/ acknowledge_purchase_order(p)

\* C6: every request that names a vendor or a purchase order that does not
\* exist answers 404 and leaves the vendors, the purchase orders and the
\* snapshots as they were.
C6_UnknownIdIs404 ==
    [][/\ \A v \in VendorCodes \ DOMAIN Vendor :
             \/ /\ response'.status = 404
                /\ UNCHANGED <<Vendor, PurchaseOrder, HistoricalPerformance>>
             \/ ~NamesVendor(v)
       /\ \A p \in PoNumbers \ DOMAIN PurchaseOrder :
             \/ /\ response'.status = 404
                /\ UNCHANGED <<Vendor, PurchaseOrder, HistoricalPerformance>>
             \/ ~NamesOrder(p)]_vars

\* C7: a PUT on a purchase order changes only the fields its body carries;
\* every other field of the order, quality_rating and acknowledgement_date
\* included, keeps the value it had.
C7_PutKeepsAbsentFields ==
    [][response'.message = "purchase order updated" =>
          \A p \in DOMAIN PurchaseOrder : \A po_details \in PoPutBodies :
              \/ /\ PutKey(p, po_details) \in DOMAIN PurchaseOrder'
                 /\ \A f \in DOMAIN PurchaseOrder[p] \ DOMAIN po_details :
                        PurchaseOrder'[PutKey(p, po_details)][f]
                            = PurchaseOrder[p][f]
              \/ ~purchase_order_data_PUT(p, po_details)]_vars

\* the four metric fields of a vendor row
Metrics(vendor) ==
    <<vendor.on_time_delivery_rate, vendor.quality_rating_avg,
      vendor.average_response_time, vendor.fulfillment_rate>>

\* C8: the POST of a purchase order, whether it creates the order (201) or
\* fails (400), leaves the four metrics of every vendor and the set of
\* snapshots as they were.
C8_PostRecomputesNothing ==
    [][\/ /\ \A v \in DOMAIN Vendor :
                /\ v \in DOMAIN Vendor'
                /\ Metrics(Vendor'[v]) = Metrics(Vendor[v])
          /\ HistoricalPerformance' = HistoricalPerformance
       \/ response'.status \notin {201, 400}
       \/ ~\E po_details \in PoPostBodies :
              purchase_orders_POST(po_details)]_vars

\* a POST has created an order, and the fulfillment rate of its vendor is
\* still the 0.98 the vendor was created with, which no count of orders yields
C8_Witness ==
    /\ response.message = "purchase order created successfully"
    /\ \E p \in DOMAIN PurchaseOrder :
          /\ PurchaseOrder[p].vendor \in DOMAIN Vendor
          /\ Vendor[PurchaseOrder[p].vendor].fulfillment_rate = <<49, 50>>
          /\ HistoryCount(HistoricalPerformance, PurchaseOrder[p].vendor) = 0

\* the set of the elements of a sequence
Elements(seq) == {seq[i] : i \in 1..Len(seq)}

\* the answer to a creating POST whose body lacks required fields: 400, an
\* error that names each missing field once and no other, no row created
MissingAnswer(required, body) ==
    /\ response'.status = 400
    /\ response'.message \in {"missing fields", "Missing fields"}
    /\ Elements(response'.missing) = required \ DOMAIN body
    /\ Len(response'.missing) = Cardinality(required \ DOMAIN body)
    /\ UNCHANGED <<Vendor, PurchaseOrder, HistoricalPerformance>>

\* C9: the POST of a vendor or of a purchase order whose body lacks a
\* required field answers 400 with an error that names exactly the missing
\* fields, and creates no row: vendors and purchase orders are unchanged.
\* Stated of the steps that answer with a missing-fields error, and of the
\* steps that answer 201: none of these is the POST of an incomplete body.
C9_MissingFieldsNamed ==
    [][/\ response'.message \in {"missing fields", "Missing fields"} =>
             /\ \A vendor_details \in IncompleteVendorBodies :
                   \/ MissingAnswer(VendorFields, vendor_details)
                   \/ ~vendors_POST(vendor_details)
             /\ \A po_details \in IncompletePoBodies :
                   \/ MissingAnswer(PoRequired, po_details)
                   \/ ~purchase_orders_POST(po_details)
       /\ response'.status = 201 =>
             /\ \A vendor_details \in IncompleteVendorBodies :
                   ~vendors_POST(vendor_details)
             /\ \A po_details \in IncompletePoBodies :
                   ~purchase_orders_POST(po_details)]_vars

\* a POST has been refused with an error that names several missing fields
C9_Witness ==
    /\ response.status = 400
    /\ Len(response.missing) > 1

\* the step leaves, under the number purchase order p has after a PUT of
\* po_details, the status, the rating and the acknowledgement date that PUT
\* assigns: a step that does not is not that PUT
Leaves(p, po_details) ==
    /\ PutKey(p, po_details) \in DOMAIN PurchaseOrder'
    /\ PurchaseOrder'[PutKey(p, po_details)].status
           = StatusAfter(p, po_details)
    /\ PurchaseOrder'[PutKey(p, po_details)].quality_rating
           = Get(po_details, "quality_rating", None)
    /\ PurchaseOrder'[PutKey(p, po_details)].acknowledgement_date
           = Get(po_details, "acknowledgement_date", None)

\* C10: a PUT on a purchase order whose status was not completed and that
\* gives it the status completed leaves its vendor with the quality_rating_avg
\* and the fulfillment_rate computed over the orders as the PUT leaves them;
\* any other PUT leaves the four metrics of the vendor unchanged; no PUT
\* changes average_response_time (or a metric of another vendor).  The status
\* after the PUT is the one its body assigns, saved under the order's number
\* after the PUT: a step that leaves another status there is not that PUT.
C10_PutTriggerPolicy ==
    [][response'.message = "purchase order updated" =>
          \A p \in DOMAIN PurchaseOrder :
              LET v == PurchaseOrder[p].vendor
                  others ==
                      /\ DOMAIN Vendor' = DOMAIN Vendor
                      /\ \A w \in DOMAIN Vendor \ {v} : Vendor'[w] = Vendor[w]
                      /\ Vendor'[v].average_response_time
                             = Vendor[v].average_response_time
                      /\ Vendor'[v].on_time_delivery_rate
                             = Vendor[v].on_time_delivery_rate
                  recomputed ==
                      /\ IsQualityRatingAvg(Vendor'[v].quality_rating_avg, v,
                                            PurchaseOrder')
                      /\ IsFulfillmentRate(Vendor'[v].fulfillment_rate, v,
                                           PurchaseOrder')
                  unchanged == Metrics(Vendor'[v]) = Metrics(Vendor[v])
              IN  \A po_details \in PoPutBodies :
                      \/ ~Leaves(p, po_details)
                      \/ /\ others
                         /\ IF /\ PurchaseOrder[p].status # "completed"
                               /\ StatusAfter(p, po_details) = "completed"
                            THEN recomputed
                            ELSE unchanged
                      \/ ~purchase_order_data_PUT(p, po_details)]_vars

\* a PUT has completed the only order of a vendor: its fulfillment rate is
\* recomputed to 1 and its average response time is the 2.5 it was created
\* with, although the order is no longer acknowledged
C10_Witness ==
    /\ response.message = "purchase order updated"
    /\ \E v \in DOMAIN Vendor :
          /\ Vendor[v].fulfillment_rate = <<1, 1>>
          /\ Vendor[v].average_response_time = <<5, 2>>
          /\ \E p \in DOMAIN PurchaseOrder :
                /\ PurchaseOrder[p].vendor = v
                /\ PurchaseOrder[p].status = "completed"

\* the four metric fields of a snapshot
SnapshotMetrics(record) ==
    <<record.on_time_delivery_rate, record.quality_rating_avg,
      record.average_response_time, record.fulfillment_rate>>

\* C12: every snapshot a request creates (a PUT, an acknowledge call or a
\* DELETE of a purchase order: no other request creates one) holds the four
\* metric values stored on its vendor when the request has finished, and so
\* reflects every recalculation the request has done.
C12_SnapshotHoldsStoredMetrics ==
    [][\A h \in DOMAIN HistoricalPerformance' \ DOMAIN HistoricalPerformance :
          /\ HistoricalPerformance'[h].vendor \in DOMAIN Vendor'
          /\ SnapshotMetrics(HistoricalPerformance'[h])
                 = Metrics(Vendor'[HistoricalPerformance'[h].vendor])
          /\ \E p \in DOMAIN PurchaseOrder :
                /\ PurchaseOrder[p].vendor = HistoricalPerformance'[h].vendor
                /\ response'.message \in {"purchase order updated",
                                          "purchase order acknowledged",
                                          "purchase order deleted"}]_vars

\* the DELETE of the only order of a vendor has set its three recomputed
\* metrics to 0, and the snapshot the DELETE took holds these values, not
\* the ones the vendor was created with
C12_Witness ==
    /\ response.message = "purchase order deleted"
    /\ \E h \in DOMAIN HistoricalPerformance :
          /\ HistoricalPerformance[h].date = now - 1
          /\ HistoricalPerformance[h].vendor \in DOMAIN Vendor
          /\ SnapshotMetrics(HistoricalPerformance[h])
                 = Metrics(Vendor[HistoricalPerformance[h].vendor])
          /\ HistoricalPerformance[h].fulfillment_rate = <<0, 1>>
          /\ HistoricalPerformance[h].on_time_delivery_rate = <<19, 20>>

\* C13: a PUT on an existing purchase order, whatever its body carries
\* (po_number included), leaves the number of stored purchase orders as it
\* was and changes no purchase order other than the one the URL addresses.
C13_PutTouchesOneOrder ==
    [][response'.message = "purchase order updated" =>
          \A p \in DOMAIN PurchaseOrder : \A po_details \in PoPutBodies :
              \/ /\ Cardinality(DOMAIN PurchaseOrder')
                        = Cardinality(DOMAIN PurchaseOrder)
                 /\ \A q \in DOMAIN PurchaseOrder \ {p} :
                        /\ q \in DOMAIN PurchaseOrder'
                        /\ PurchaseOrder'[q] = PurchaseOrder[q]
              \/ ~purchase_order_data_PUT(p, po_details)]_vars

\* C14: an acknowledged purchase order keeps its acknowledgement_date,
\* non-null and unchanged, through every request until the order is deleted.
\* Stated for the requests that do not set the date themselves: a PUT on the
\* order whose body carries acknowledgement_date is left out.
C14_AcknowledgementKept ==
    [][\A p \in DOMAIN PurchaseOrder :
          \/ PurchaseOrder[p].acknowledgement_date = None
          \/ p \notin DOMAIN PurchaseOrder'
          \/ PurchaseOrder'[p].acknowledgement_date
                 = PurchaseOrder[p].acknowledgement_date
          \/ \E po_details \in PoPutBodies :
                 /\ "acknowledgement_date" \in DOMAIN po_details
                 /\ purchase_order_data_PUT(p, po_details)]_vars

\* a request on purchase orders that changes the database: a POST, a PUT, an
\* acknowledge call or a DELETE
PurchaseOrderOperation ==
    \/ \E po_details \in PoPostBodies : purchase_orders_POST(po_details)
    \/ \E p \in PoNumbers, po_details \in PoPutBodies :
           purchase_order_data_PUT(p, po_details)
    \/ \E p \in PoNumbers : purchase_order_data_DELETE(p)
    \/ \E p \in PoNumbers : acknowledge_purchase_order(p)

\* the stored fulfillment_rate of vendor v is the share of completed orders
\* among its orders
RateIsCurrent(v, vendors, pos) ==
    /\ v \in DOMAIN vendors
    /\ IsFulfillmentRate(vendors[v].fulfillment_rate, v, pos)

\* C15 as stated: once the fulfillment_rate of a vendor has been recomputed,
\* it equals completed orders / orders of the vendor (0 without orders) after
\* every further POST, PUT, acknowledge call and DELETE on purchase orders.
\* A vendor is created and edited with the rate 0.98, which no count of orders
\* yields: a stored rate equal to the ratio is one a recomputation has set.
C15_RateStaysCurrent ==
    [][\A v \in DOMAIN Vendor :
          \/ ~RateIsCurrent(v, Vendor, PurchaseOrder)
          \/ RateIsCurrent(v, Vendor', PurchaseOrder')
          \/ ~PurchaseOrderOperation]_vars

\* no stored fulfillment_rate changes in the step
RateKept ==
    \A v \in DOMAIN Vendor :
        /\ v \in DOMAIN Vendor'
        /\ Vendor'[v].fulfillment_rate = Vendor[v].fulfillment_rate

\* the messages and errors of the responses to a POST of a purchase order
\* and to an acknowledge call
PostAnswers ==
    {"purchase order created successfully", "Missing fields", "DoesNotExist",
     "IntegrityError"}

AcknowledgeAnswers ==
    {"purchase order acknowledged", "purchase order already acknowledged",
     "purchase order not found"}

\* C15 amended: a PUT that moves the status of an order from a value other
\* than completed to completed, and a DELETE of an order, leave the stored
\* fulfillment_rate of the order's vendor equal to completed orders / orders
\* of the vendor as they then stand (0 without orders); a POST, an
\* acknowledge call and every other PUT leave every stored fulfillment_rate
\* as it was, so that the stored rate is the ratio as of the last
\* recomputation and not always the current one.  (A step is told from its
\* response, and a PUT from the status it leaves under the order's number,
\* before it is compared with the handler.)
C15_RateAsOfLastRecomputation ==
    [][/\ \/ RateKept
          \/ response'.message \notin PostAnswers \cup AcknowledgeAnswers
          \/ ~\/ \E po_details \in PoPostBodies :
                     purchase_orders_POST(po_details)
              \/ \E p \in PoNumbers : acknowledge_purchase_order(p)
       /\ \/ RateKept
          \/ response'.message # "purchase order updated"
          \/ \A p \in DOMAIN PurchaseOrder : \A po_details \in PoPutBodies :
                 \/ StatusTrigger(PurchaseOrder[p].status,
                                  StatusAfter(p, po_details))
                 \/ PutKey(p, po_details) \notin DOMAIN PurchaseOrder'
                 \/ PurchaseOrder'[PutKey(p, po_details)].status
                        # StatusAfter(p, po_details)
                 \/ ~purchase_order_data_PUT(p, po_details)
       /\ \/ response'.message # "purchase order updated"
          \/ \A p \in DOMAIN PurchaseOrder : \A po_details \in PoPutBodies :
                 \/ PurchaseOrder[p].status = "completed"
                 \/ StatusAfter(p, po_details) # "completed"
                 \/ RateIsCurrent(PurchaseOrder[p].vendor, Vendor',
                                  PurchaseOrder')
                 \/ PutKey(p, po_details) \notin DOMAIN PurchaseOrder'
                 \/ PurchaseOrder'[PutKey(p, po_details)].status
                        # "completed"
                 \/ ~purchase_order_data_PUT(p, po_details)
       /\ \/ response'.message # "purchase order deleted"
          \/ \A p \in DOMAIN PurchaseOrder :
                 \/ RateIsCurrent(PurchaseOrder[p].vendor, Vendor',
                                  PurchaseOrder')
                 \/ ~purchase_order_data_DELETE(p)]_vars

\* a POST has created an order for a vendor whose rate a recomputation had
\* set to 0 or to 1: the stored rate is no longer the current ratio
C15_Witness ==
    /\ response.message = "purchase order created successfully"
    /\ \E v \in DOMAIN Vendor :
          /\ Vendor[v].fulfillment_rate \in {<<0, 1>>, <<1, 1>>}
          /\ ~RateIsCurrent(v, Vendor, PurchaseOrder)

----------------------------------------------------------------------------
(* Overlapping requests.  Two requests, each an acknowledge call or a      *)
(* DELETE on a purchase order of the same vendor, are served side by side  *)
(* with no lock: a step is one access to the database by one request,      *)
(* between two steps of a request the other may take any number of its     *)
(* own.  The instances a request holds (po, vendor) are its own copies of  *)
(* the rows it has read.  The two count() queries of                       *)
(* fulfillment_rate_calculation are one step, so that every interleaving   *)
(* here is an interleaving of the code.                                    *)

Kinds == {"acknowledge", "DELETE"}

\* the other request
Other(r) == CHOOSE q \in Requests : q # r

\* the request has read the database and has not answered yet
InFlight(r) == requests[r].pc \notin {"start", "done"}

\* request r moves to pc holding the instances po and vendor; saved are the
\* metrics it has written to the vendor row, lost tells that one of its
\* writes replaced a value another request had stored since r read the row;
\* overlapped records that it acted while the other request was in flight
Moves(r, pc, po, vendor, saved, lost) ==
    requests' = [requests EXCEPT ![r] =
        [kind |-> @.kind, po_id |-> @.po_id, pc |-> pc, po |-> po,
         vendor |-> vendor, saved |-> saved, lost |-> lost,
         overlapped |-> @.overlapped \/ InFlight(Other(r))]]

\* two purchase orders of the vendor of PurchaseOrderAPITests.setUp
TwoOrders ==
    {[p \in PoNumbers |->
         [PurchaseOrderFixture["PO001"] EXCEPT
              !.status = status[p], !.acknowledgement_date = date[p],
              !.quality_rating = IF p = "PO001" THEN <<2>> ELSE <<4>>]] :
        status \in [PoNumbers -> {"pending", "completed"}],
        date \in [PoNumbers -> AckDates]}

ConcurrentInit ==
    /\ Vendor = PurchaseOrderVendorFixture
    /\ PurchaseOrder \in TwoOrders
    /\ HistoricalPerformance = EmptyTable
    /\ hist_seq = 1
    /\ now = 2
    /\ response = Response(200, "", <<>>)
    /\ po_operations = [v \in VendorCodes |-> 0]
    /\ requests \in
           {[r \in Requests |->
                 [NoRequest EXCEPT !.kind = kind[r], !.po_id = po_id[r],
                                   !.pc = "start"]] :
               kind \in [Requests -> Kinds], po_id \in [Requests -> PoNumbers]}

\* acknowledge_purchase_order, lines 276-281 and 288-289: the order is read
acknowledge_get(r) ==
    LET this == requests[r]
    IN  /\ this.kind = "acknowledge" /\ this.pc = "start"
        /\ IF this.po_id \notin DOMAIN PurchaseOrder
           THEN /\ response' = Response(404, "purchase order not found", <<>>)
                /\ Moves(r, "done", this.po, this.vendor, {}, FALSE)
           ELSE IF NotAcknowledged(PurchaseOrder[this.po_id])
           THEN /\ Moves(r, "po_save", PurchaseOrder[this.po_id],
                         this.vendor, {}, FALSE)
                /\ UNCHANGED response
           ELSE /\ response' =
                       Response(200, "purchase order already acknowledged",
                                <<>>)
                /\ Moves(r, "done", this.po, this.vendor, {}, FALSE)
        /\ UNCHANGED <<tables, now, po_operations>>

\* lines 282-283: the date is set on the instance and the instance saved
acknowledge_save(r) ==
    LET this == requests[r]
        purchase_order == [this.po EXCEPT !.acknowledgement_date = <<now>>]
    IN  /\ this.pc = "po_save"
        /\ PurchaseOrder' = Save(PurchaseOrder, this.po_id, purchase_order)
        /\ now' = now + 1
        /\ Moves(r, "vendor_get", purchase_order, this.vendor, {}, FALSE)
        /\ UNCHANGED <<Vendor, HistoricalPerformance, hist_seq, response,
                       po_operations>>

\* purchase_order_data, lines 217-220: the order is read
delete_get(r) ==
    LET this == requests[r]
    IN  /\ this.kind = "DELETE" /\ this.pc = "start"
        /\ IF this.po_id \notin DOMAIN PurchaseOrder
           THEN /\ response' =
                       Response(404, "invalid purchase order id", <<>>)
                /\ Moves(r, "done", this.po, this.vendor, {}, FALSE)
           ELSE /\ Moves(r, "vendor_get", PurchaseOrder[this.po_id],
                         this.vendor, {}, FALSE)
                /\ UNCHANGED response
        /\ UNCHANGED <<tables, now, po_operations>>

\* lines 261 and 284: the first use of po.vendor reads the vendor row
vendor_get(r) ==
    LET this == requests[r]
    IN  /\ this.pc = "vendor_get"
        /\ Moves(r, IF this.kind = "DELETE" THEN "po_delete"
                    ELSE "average_response_time",
                 this.po, Vendor[this.po.vendor], {}, FALSE)
        /\ UNCHANGED <<tables, now, response, po_operations>>

\* line 262
delete_po(r) ==
    LET this == requests[r]
    IN  /\ this.pc = "po_delete"
        /\ PurchaseOrder' = Remove(PurchaseOrder, {this.po_id})
        /\ Moves(r, "average_response_time", this.po, this.vendor, {}, FALSE)
        /\ UNCHANGED <<Vendor, HistoricalPerformance, hist_seq, now, response,
                       po_operations>>

\* the metric functions in the order of lines 263-265; acknowledge calls the
\* first only (line 285)
Metric == {"average_response_time", "fulfillment_rate", "quality_rating_avg"}

\* the position of a request that has computed a metric and not saved it
Computed(metric) ==
    CASE metric = "average_response_time" -> "save average_response_time"
      [] metric = "fulfillment_rate" -> "save fulfillment_rate"
      [] metric = "quality_rating_avg" -> "save quality_rating_avg"

AfterMetric(kind, metric) ==
    IF kind = "acknowledge" THEN "snapshot"
    ELSE CASE metric = "average_response_time" -> "fulfillment_rate"
           [] metric = "fulfillment_rate" -> "quality_rating_avg"
           [] metric = "quality_rating_avg" -> "snapshot"

\* the queries of a metric function and its assignment to the instance
\* (lines 295-298, 305-307, 314-317)
metric_query(r) ==
    LET this == requests[r]
        pk == this.po.vendor
        vendor ==
            CASE this.pc = "average_response_time" ->
                     calculate_average_response_time(pk, this.vendor,
                                                     PurchaseOrder)
              [] this.pc = "fulfillment_rate" ->
                     fulfillment_rate_calculation(pk, this.vendor,
                                                  PurchaseOrder)
              [] this.pc = "quality_rating_avg" ->
                     quality_rating_calculation(pk, this.vendor,
                                                PurchaseOrder)
    IN  /\ this.pc \in Metric
        /\ Moves(r, Computed(this.pc), this.po, vendor, this.saved, this.lost)
        /\ UNCHANGED <<tables, now, response, po_operations>>

\* vendor.save() (lines 299, 308, 318) writes every field of the instance
vendor_save(r) ==
    LET this == requests[r]
        pk == this.po.vendor
        metric == CHOOSE m \in Metric : Computed(m) = this.pc
        stale == \E m \in Metric \ {metric} : Vendor[pk][m] # this.vendor[m]
    IN  /\ this.pc \in {Computed(m) : m \in Metric}
        /\ Vendor' = Save(Vendor, pk, this.vendor)
        /\ Moves(r, AfterMetric(this.kind, metric), this.po, this.vendor,
                 this.saved \cup {metric}, this.lost \/ stale)
        /\ UNCHANGED <<PurchaseOrder, HistoricalPerformance, hist_seq, now,
                       response, po_operations>>

\* create_historical_record and the response (lines 266-267, 286-287)
snapshot(r) ==
    LET this == requests[r]
        pk == this.po.vendor
    IN  /\ this.pc = "snapshot"
        /\ HistoricalPerformance' =
               create_historical_record(HistoricalPerformance, hist_seq, pk,
                                        this.vendor, now)
        /\ hist_seq' = hist_seq + 1
        /\ now' = now + 1
        /\ response' = IF this.kind = "DELETE"
                       THEN Response(204, "purchase order deleted", <<>>)
                       ELSE Response(200, "purchase order acknowledged", <<>>)
        /\ po_operations' = [po_operations EXCEPT ![pk] = @ + 1]
        /\ Moves(r, "done", this.po, this.vendor, this.saved, this.lost)
        /\ UNCHANGED <<Vendor, PurchaseOrder>>

ConcurrentNext ==
    \/ \E r \in Requests : acknowledge_get(r)
    \/ \E r \in Requests : acknowledge_save(r)
    \/ \E r \in Requests : delete_get(r)
    \/ \E r \in Requests : vendor_get(r)
    \/ \E r \in Requests : delete_po(r)
    \/ \E r \in Requests : metric_query(r)
    \/ \E r \in Requests : vendor_save(r)
    \/ \E r \in Requests : snapshot(r)

Concurrent == ConcurrentInit /\ [][ConcurrentNext]_vars

\* both requests have answered
AllDone == \A r \in Requests : requests[r].pc = "done"

\* one of the two requests acted while the other was in flight
Overlapped == \E r \in Requests : requests[r].overlapped

\* the stored value of a metric of vendor v is the value over the orders
\* the vendor has
MetricIsCurrent(metric, v) ==
    CASE metric = "average_response_time" ->
             IsAverageResponseTime(Vendor[v].average_response_time, v,
                                   PurchaseOrder)
      [] metric = "fulfillment_rate" ->
             IsFulfillmentRate(Vendor[v].fulfillment_rate, v, PurchaseOrder)
      [] metric = "quality_rating_avg" ->
             IsQualityRatingAvg(Vendor[v].quality_rating_avg, v,
                                PurchaseOrder)

\* a metric that one of the requests has recomputed and saved is not the
\* value over the orders the vendor has
StaleMetric ==
    \E r \in Requests : \E metric \in requests[r].saved :
        ~MetricIsCurrent(metric, requests[r].po.vendor)

\* a save of a request has replaced, by the value of its own copy of the
\* vendor, a metric that the other request had stored in between
LostUpdate == \E r \in Requests : requests[r].lost

\* C11: lost updates are the effect of the overlap.  Two requests served
\* one after the other lose nothing: no save replaces a value stored by the
\* other request with that of a stale copy, and when both have answered every
\* metric they recomputed is the value over the orders the vendor has.  With
\* overlapping requests there is an interleaving that ends otherwise
\* (C11_Witness).
C11_SerialRequestsLoseNothing ==
    (LostUpdate \/ (AllDone /\ StaleMetric)) => Overlapped

\* two overlapping requests have answered; a save of one has replaced a
\* metric the other had stored by the value of its stale copy of the vendor,
\* and the vendor is left with a metric that is not the value over its orders
C11_Witness ==
    /\ AllDone
    /\ Overlapped
    /\ LostUpdate
    /\ StaleMetric

====
